---- MODULE Spec2Model ----
(***************************************************************************)
(* The ETL pipeline of src/etl/run_etl_pipeline.py (class InfrastructureETL *)
(* and main) as a state machine.  The state is the file system the         *)
(* pipeline reads and writes (data/raw, data/final), the persistent DuckDB *)
(* database data/infrastructure.duckdb, the connection, and the position   *)
(* of the single process inside main() / run_pipeline().                   *)
(***************************************************************************)
EXTENDS Integers, Sequences, FiniteSets, TLC

(***************************************************************************)
(* Bounds of the model.                                                    *)
(***************************************************************************)
\* Longest infrastructure_resilience_scores.csv (data rows) in Spec.
MaxRows == 1
\* Longest infrastructure_resilience_scores.csv (data rows) in SpecData.
MaxDataRows == 3
\* Number of executions of main() against the same data directory in Spec.
MaxRuns == 2
\* Most countries of an input file in SpecRank.
MaxRankRows == 4
\* Most countries of an input file in SpecTop: one more than LIMIT 10.
MaxTopRows == 11
\* Most calls of run_pipeline on one InfrastructureETL object in SpecReuse.
MaxCalls == 2
\* Longest infrastructure_resilience_scores.csv (data rows) in SpecQuality.
MaxQualityRows == 2

\* Country names, as their position in the collation order of the names.
Countries == {1, 2}
\* The years of the input rows: one before the filter year, and years after
\* it with and without a gap.
Years == {2009, 2010, 2011, 2013}
\* The infrastructure_score values of the input rows that are not NULL.
Scores == {1, 2}
\* The four resilience columns (transport, energy, water, digital) of a row.
ResilienceValues == {<<2, 4, 6, 8>>}

(***************************************************************************)
(* SQL values: a nullable value is <<>> (NULL) or <<v>>.                   *)
(***************************************************************************)
Null == <<>>
Some(v) == <<v>>
IsNull(x) == x = <<>>
Val(x) == x[1]

ScoreValues == {Null} \cup {Some(s) : s \in Scores}

\* WHERE year >= 2010 (transform)
FilterYear == 2010
\* LIMIT 10 (create_analytics_views)
TopLimit == 10

\* One row of infrastructure_resilience_scores.csv as read_csv_auto types it.
RawRows ==
    { [country |-> c, year |-> y, infrastructure_score |-> s,
       transport_resilience |-> r[1], energy_resilience |-> r[2],
       water_resilience |-> r[3], digital_resilience |-> r[4]] :
      c \in Countries, y \in Years, s \in ScoreValues, r \in ResilienceValues }

\* The rows Spec draws its input files from: it follows the process through
\* failures and repeated executions, over few data.
LifecycleRows ==
    { r \in RawRows : /\ r.country = 1
                      /\ r.year \in {2009, 2010}
                      /\ r.infrastructure_score \in {Null, Some(1)}
                      /\ IsNull(r.infrastructure_score) => r.year = 2010 }

\* The rows SpecData draws its input files from: country 1 in every year,
\* country 2 in two of them, every score, a NULL score at one (country, year).
DataRows ==
    { r \in RawRows : /\ r.country = 2 => r.year \in {2010, 2011}
                      /\ IsNull(r.infrastructure_score) => r.country = 2 /\ r.year = 2010 }

RECURSIVE SeqsUpTo(_, _)
\* All sequences over S of length at most n.
SeqsUpTo(S, n) ==
    IF n = 0 THEN {<<>>}
    ELSE LET shorter == SeqsUpTo(S, n - 1)
         IN  shorter \cup {Append(q, x) : q \in {t \in shorter : Len(t) = n - 1}, x \in S}

RECURSIVE SumOver(_, _)
\* The sum of f[x] over the finite set S.
SumOver(S, f) ==
    IF S = {} THEN 0
    ELSE LET x == CHOOSE y \in S : TRUE
         IN  f[x] + SumOver(S \ {x}, f)

Min(S) == CHOOSE x \in S : \A y \in S : x <= y
Max(S) == CHOOSE x \in S : \A y \in S : x >= y


(***************************************************************************)
(* transform: the three CREATE OR REPLACE TABLE ... AS SELECT statements.  *)
(***************************************************************************)
\* ORDER BY country, year; also PARTITION BY country ORDER BY year.
CountryYearBefore(a, b) ==
    \/ a.country < b.country
    \/ a.country = b.country /\ a.year < b.year

\* The orders a sort by (country, year) may give the rows: the permutations
\* p of 1..Len(rows) in which no row comes before one that sorts strictly
\* ahead of it, rows of equal keys in any order.
\* They are built front to back, country by country in ascending order and
\* within a country year by year: the rows of one (country, year) follow
\* each other in any order.
RECURSIVE PermutationsOf(_)
\* Every order of the elements of S.
PermutationsOf(S) ==
    IF S = {} THEN {<<>>}
    ELSE UNION { { <<i>> \o t : t \in PermutationsOf(S \ {i}) } : i \in S }

RECURSIVE YearOrdersOf(_, _)
\* The orders by year of the rows left, rows of one country.
YearOrdersOf(rows, left) ==
    IF left = {} THEN {<<>>}
    ELSE LET y == Min({ rows[j].year : j \in left })
             ofY == { j \in left : rows[j].year = y }
         IN  { a \o b : a \in PermutationsOf(ofY),
                        b \in YearOrdersOf(rows, left \ ofY) }

RECURSIVE CountryYearOrdersOf(_, _)
CountryYearOrdersOf(rows, left) ==
    IF left = {} THEN {<<>>}
    ELSE LET c == Min({ rows[j].country : j \in left })
             ofC == { j \in left : rows[j].country = c }
         IN  { a \o b : a \in YearOrdersOf(rows, ofC),
                        b \in CountryYearOrdersOf(rows, left \ ofC) }

CountryYearOrders(rows) == CountryYearOrdersOf(rows, 1..Len(rows))

\* ORDER BY infrastructure_score DESC: a NULL sorts after every value.
ScoreBefore(a, b) == ~IsNull(a) /\ (IsNull(b) \/ Val(a) > Val(b))

\* A faulty variant of Minus: the operands are taken in the other order.
MinusReversed(a, b) == IF IsNull(a) \/ IsNull(b) THEN Null ELSE Some(Val(b) - Val(a))

\* a - b in SQL: NULL when either side is NULL.
Minus(a, b) == IF IsNull(a) \/ IsNull(b) THEN Null ELSE Some(Val(a) - Val(b))

\* A faulty variant of Filtered: the filter year itself is dropped (WHERE year > 2010).
FilteredAfter(raw) == SelectSeq(raw, LAMBDA r : r.year > FilterYear)

\* WHERE year >= 2010
Filtered(raw) == SelectSeq(raw, LAMBDA r : r.year >= FilterYear)

\* A faulty variant of LagScore: the window has no PARTITION BY country, the lag is the
\* row before whatever its country.
LagScoreUnpartitioned(rows, w, k) ==
    IF k > 1 THEN rows[w[k - 1]].infrastructure_score ELSE Null

\* LAG(infrastructure_score, 1) OVER (PARTITION BY country ORDER BY year) for
\* the row at place k of the window order w: the score of the row just before
\* it in the same partition, NULL when it is the first of its partition.
LagScore(rows, w, k) ==
    IF k > 1 /\ rows[w[k - 1]].country = rows[w[k]].country
    THEN rows[w[k - 1]].infrastructure_score
    ELSE Null

\* A faulty variant of YearlyRank: DENSE_RANK() in place of RANK(), one more
\* than the number of distinct scores ahead in the year.
YearlyDenseRank(rows, i) ==
    1 + Cardinality({ rows[j].infrastructure_score : j \in
                        { j \in 1..Len(rows) :
                            /\ rows[j].year = rows[i].year
                            /\ ScoreBefore(rows[j].infrastructure_score,
                                           rows[i].infrastructure_score) } })

\* RANK() OVER (PARTITION BY year ORDER BY infrastructure_score DESC) of row i.
YearlyRank(rows, i) ==
    1 + Cardinality({ j \in 1..Len(rows) :
                        /\ rows[j].year = rows[i].year
                        /\ ScoreBefore(rows[j].infrastructure_score,
                                       rows[i].infrastructure_score) })

\* The SELECT list of clean_infrastructure for the row at place k of the
\* window order w.  The resilience values of the model sum to a multiple of
\* 4, so the division is exact.
CleanRow(rows, w, k) ==
    LET r == rows[w[k]]
    IN  [country |-> r.country, year |-> r.year,
         infrastructure_score |-> r.infrastructure_score,
         transport_resilience |-> r.transport_resilience,
         energy_resilience |-> r.energy_resilience,
         water_resilience |-> r.water_resilience,
         digital_resilience |-> r.digital_resilience,
         avg_resilience |-> (r.transport_resilience + r.energy_resilience
                             + r.water_resilience + r.digital_resilience) \div 4,
         score_change |-> Minus(r.infrastructure_score, LagScore(rows, w, k)),
         yearly_rank |-> YearlyRank(rows, w[k])]

\* The rows of clean_infrastructure computed along window order w.
Windowed(rows, w) == [k \in 1..Len(rows) |-> CleanRow(rows, w, k)]

\* The rows in the order o.
Reorder(rows, o) == [k \in 1..Len(rows) |-> rows[o[k]]]

\* Every table the first statement of transform may create from raw: rows of
\* equal (country, year) may fall in either order, in the window and in the
\* final ORDER BY.
CleanInfrastructure(raw) ==
    LET kept == Filtered(raw)
    IN  UNION { { Reorder(Windowed(kept, w), o) :
                    o \in CountryYearOrders(Windowed(kept, w)) } :
                w \in CountryYearOrders(kept) }

\* AVG(f) over the rows S, NULLs already left out: the exact quotient
\* sum / count, NULL over no rows.
Avg(S, f) ==
    IF S = {} THEN Null
    ELSE Some([sum |-> SumOver(S, f), count |-> Cardinality(S)])

\* STDDEV(f) over the rows S, NULLs already left out: the sample standard
\* deviation, NULL over fewer than two values, else the square root of
\* (n * sum(x^2) - sum(x)^2) / (n * (n - 1)).
StdDev(S, f) ==
    LET n == Cardinality(S)
    IN  IF n < 2 THEN Null
        ELSE Some([sqrt_num |-> n * SumOver(S, [i \in S |-> f[i] * f[i]])
                                - SumOver(S, f) * SumOver(S, f),
                   sqrt_den |-> n * (n - 1)])

NullableMin(S) == IF S = {} THEN Null ELSE Some(Min(S))
NullableMax(S) == IF S = {} THEN Null ELSE Some(Max(S))

\* The country_summary row of country c (GROUP BY country).
SummaryRow(clean, c) ==
    LET idx == { i \in 1..Len(clean) : clean[i].country = c }
        scored == { i \in idx : ~IsNull(clean[i].infrastructure_score) }
        changed == { i \in idx : ~IsNull(clean[i].score_change) }
        scores == { Val(clean[i].infrastructure_score) : i \in scored }
    IN  [country |-> c,
         first_year |-> Min({ clean[i].year : i \in idx }),
         last_year |-> Max({ clean[i].year : i \in idx }),
         num_years |-> Cardinality(idx),
         avg_score |-> Avg(scored, [i \in scored |-> Val(clean[i].infrastructure_score)]),
         min_score |-> NullableMin(scores),
         max_score |-> NullableMax(scores),
         score_improvement |-> Minus(NullableMax(scores), NullableMin(scores)),
         avg_yearly_change |-> Avg(changed, [i \in changed |-> Val(clean[i].score_change)])]

\* country_summary: one row per country of clean_infrastructure.  GROUP BY
\* without ORDER BY leaves the row order open; the relation is kept as the
\* set of its rows.
CountrySummary(clean) ==
    { SummaryRow(clean, c) : c \in { clean[i].country : i \in 1..Len(clean) } }

\* The yearly_trends row of year y (GROUP BY year).
TrendRow(clean, y) ==
    LET idx == { i \in 1..Len(clean) : clean[i].year = y }
        scored == { i \in idx : ~IsNull(clean[i].infrastructure_score) }
        score == [i \in scored |-> Val(clean[i].infrastructure_score)]
        scores == { score[i] : i \in scored }
    IN  [year |-> y,
         global_avg_score |-> Avg(scored, score),
         score_std_dev |-> StdDev(scored, score),
         min_score |-> NullableMin(scores),
         max_score |-> NullableMax(scores),
         num_countries |-> Cardinality({ clean[i].country : i \in idx })]

RECURSIVE Ascending(_)
\* The elements of the set of integers S in ascending order.
Ascending(S) ==
    IF S = {} THEN <<>>
    ELSE <<Min(S)>> \o Ascending(S \ {Min(S)})

\* yearly_trends: one row per year of clean_infrastructure, ORDER BY year.
YearlyTrends(clean) ==
    LET ys == Ascending({ clean[i].year : i \in 1..Len(clean) })
    IN  [k \in 1..Len(ys) |-> TrendRow(clean, ys[k])]

(***************************************************************************)
(* load, create_analytics_views, run_quality_checks: what they compute.    *)
(***************************************************************************)
\* tables_to_export, in the order load exports them.
TablesToExport == <<"clean_infrastructure", "country_summary", "yearly_trends">>

\* A faulty variant of ExportFiles: for each table its csv file is written
\* before its parquet file.
ExportFilesCsvFirst ==
    << [table |-> "clean_infrastructure", format |-> "csv"],
       [table |-> "clean_infrastructure", format |-> "parquet"],
       [table |-> "country_summary", format |-> "csv"],
       [table |-> "country_summary", format |-> "parquet"],
       [table |-> "yearly_trends", format |-> "csv"],
       [table |-> "yearly_trends", format |-> "parquet"] >>

\* The files load writes with COPY, in the order it writes them: for each
\* table its parquet file, then its csv file.
ExportFiles ==
    << [table |-> "clean_infrastructure", format |-> "parquet"],
       [table |-> "clean_infrastructure", format |-> "csv"],
       [table |-> "country_summary", format |-> "parquet"],
       [table |-> "country_summary", format |-> "csv"],
       [table |-> "yearly_trends", format |-> "parquet"],
       [table |-> "yearly_trends", format |-> "csv"] >>

MetadataFile == [table |-> "pipeline_metadata", format |-> "json"]
TopPerformersFile == [table |-> "top_performers", format |-> "csv"]
QualityReportFile == [table |-> "quality_report", format |-> "json"]

\* Every file the pipeline writes under data/final.
OutputFiles ==
    { ExportFiles[i] : i \in 1..Len(ExportFiles) }
        \cup {MetadataFile, TopPerformersFile, QualityReportFile}

\* A faulty variant of CountRows: the lines of the csv file are counted, its
\* header line among them.
CountLines(table, relation) ==
    1 + (IF table = "country_summary" THEN Cardinality(relation) ELSE Len(relation))

\* SELECT COUNT(*) FROM <table>
CountRows(table, relation) ==
    IF table = "country_summary" THEN Cardinality(relation) ELSE Len(relation)

\* The metadata dictionary of load, for the tables of database d at time now.
Metadata(d, now) ==
    [pipeline_run |-> now,
     tables_created |-> TablesToExport,
     record_counts |->
        [t \in { TablesToExport[i] : i \in 1..Len(TablesToExport) } |->
            CountRows(t, Val(d[t]))]]

\* A faulty variant of MaxYear: the earliest year of clean_infrastructure.
MinYear(clean) == NullableMin({ clean[i].year : i \in 1..Len(clean) })

\* SELECT MAX(year) FROM clean_infrastructure: NULL over no rows.
MaxYear(clean) == NullableMax({ clean[i].year : i \in 1..Len(clean) })

\* One row of the join of country_summary c with clean_infrastructure ci.
TopRow(c, ci) ==
    [country |-> c.country, avg_score |-> c.avg_score,
     score_improvement |-> c.score_improvement,
     latest_score |-> ci.infrastructure_score, latest_rank |-> ci.yearly_rank]

\* ORDER BY ci.infrastructure_score DESC
LatestScoreBefore(a, b) == ScoreBefore(a.latest_score, b.latest_score)

\* The orders the sort by latest_score descending may give the rows.
RECURSIVE LatestScoreOrdersOf(_, _)
LatestScoreOrdersOf(rows, left) ==
    IF left = {} THEN {<<>>}
    ELSE UNION { { <<i>> \o t : t \in LatestScoreOrdersOf(rows, left \ {i}) } :
                 i \in { i \in left :
                           \A j \in left : ~LatestScoreBefore(rows[j], rows[i]) } }

LatestScoreOrders(rows) == LatestScoreOrdersOf(rows, 1..Len(rows))

\* The first n rows, or all of them when there are fewer: LIMIT n.
Limit(rows, n) == SubSeq(rows, 1, IF Len(rows) < n THEN Len(rows) ELSE n)

\* The rows of the join c.country = ci.country WHERE ci.year = MAX(year), in
\* the order of clean_infrastructure.
JoinLatest(summary, clean) ==
    LET maxYear == MaxYear(clean)
        latest == SelectSeq(clean, LAMBDA ci : maxYear = Some(ci.year))
    IN  [k \in 1..Len(latest) |->
            TopRow(CHOOSE c \in summary : c.country = latest[k].country, latest[k])]

\* Every result the top_performers view may give: rows of equal latest_score
\* may fall in either order.
TopPerformers(summary, clean) ==
    LET joined == JoinLatest(summary, clean)
    IN  { Limit(Reorder(joined, o), TopLimit) :
            o \in LatestScoreOrders(joined) }

\* A faulty variant of NullCheck: the rows counted are those whose score IS NOT NULL.
NullCheckNotNull(clean) ==
    Cardinality({ i \in 1..Len(clean) : ~IsNull(clean[i].infrastructure_score) })

\* SELECT COUNT(*) FROM clean_infrastructure WHERE infrastructure_score IS NULL
NullCheck(clean) ==
    Cardinality({ i \in 1..Len(clean) : IsNull(clean[i].infrastructure_score) })

\* A faulty variant of DupCheck: the rows of the duplicated groups are counted, not
\* the groups (SUM(cnt) in place of COUNT(*)).
DupCheckRows(clean) ==
    Cardinality({ i \in 1..Len(clean) :
                    \E j \in 1..Len(clean) :
                        /\ j # i
                        /\ clean[j].country = clean[i].country
                        /\ clean[j].year = clean[i].year })

\* The years y of country c whose group (c, y) has COUNT(*) > 1.
DuplicatedYears(clean, c) ==
    LET ofC == { i \in 1..Len(clean) : clean[i].country = c }
    IN  { y \in { clean[i].year : i \in ofC } :
            Cardinality({ i \in ofC : clean[i].year = y }) > 1 }

\* SELECT COUNT(*) FROM (SELECT country, year, COUNT(*) ... GROUP BY country,
\* year HAVING COUNT(*) > 1): the groups are counted country by country.
DupCheck(clean) ==
    LET countries == { clean[i].country : i \in 1..Len(clean) }
    IN  SumOver(countries,
                [c \in countries |-> Cardinality(DuplicatedYears(clean, c))])

\* The f-string "Found {n} <what>".
Details(n, what) == <<"Found ", n, what>>

\* The checks list of run_quality_checks.
Checks(clean) ==
    LET null_count == NullCheck(clean)
        dup_count == DupCheck(clean)
    IN  << [check |-> "null_values", passed |-> null_count = 0,
            details |-> Details(null_count, " null values")],
           [check |-> "duplicates", passed |-> dup_count = 0,
            details |-> Details(dup_count, " duplicate records")] >>

\* A faulty variant of AllPassed: any(...) in place of all(...).
AnyPassed(checks) == \E i \in 1..Len(checks) : checks[i].passed

\* all(c['passed'] for c in checks)
AllPassed(checks) == \A i \in 1..Len(checks) : checks[i].passed

\* The quality_report dictionary.
QualityReport(clean, now) ==
    LET checks == Checks(clean)
    IN  [timestamp |-> now, checks |-> checks, all_passed |-> AllPassed(checks)]

(***************************************************************************)
(* The state.                                                              *)
(***************************************************************************)
VARIABLES
    rawFile,     \* data/raw/infrastructure_resilience_scores.csv
    auxFile,     \* the data/raw/worldbank_*.csv files, by name
    db,          \* the tables and views of data/infrastructure.duckdb
    files,       \* the files under data/final
    clock,       \* the wall clock, read by datetime.now()
    pc,          \* where the process is in main() / run_pipeline()
    conn,        \* self.conn: "none" before connect, "open", "closed"
    closeCalls,  \* calls of close() in this execution of run_pipeline
    started,     \* the stages started in this execution, in order
    raised,      \* the stage that raised in this execution, or NULL
    retval,      \* the value run_pipeline returns, once set
    mainResult,  \* the value main() returned
    written,     \* the files written in this execution, in order
    qcReturn,    \* the value run_quality_checks returned
    runsLeft,    \* executions of main() still to come
    calls        \* calls of run_pipeline on this InfrastructureETL object

vars == <<rawFile, auxFile, db, files, clock, pc, conn, closeCalls, started,
          raised, retval, mainResult, written, qcReturn, runsLeft, calls>>

\* The tables and views the pipeline creates in the database.
DbObjects ==
    {"raw_infrastructure", "raw_worldbank_gdp_per_capita", "clean_infrastructure",
     "country_summary", "yearly_trends", "top_performers"}

\* The required input file: missing, there but not readable as csv, a csv
\* file without the columns transform selects, or a csv file of the seven
\* columns with its data rows (none: the header line alone).  What the
\* pipeline makes of a csv file depends on its rows: see ScoreColumnTyped.
RawFiles(rows, maxRows) ==
    { [kind |-> k, rows |-> <<>>] : k \in {"absent", "unreadable", "badschema"} }
        \cup { [kind |-> "csv", rows |-> r] : r \in SeqsUpTo(rows, maxRows) }

AbsentFile == [kind |-> "absent", rows |-> <<>>]

\* read_csv_auto gives a column the type of its values, and VARCHAR to a
\* column without a value: every column of a file of the header line alone,
\* and infrastructure_score when no row has a score (the other columns have
\* a value in every row of the model).  The arithmetic of transform
\* (infrastructure_score - LAG(infrastructure_score, 1), the sum of the four
\* resilience columns) binds only over numeric columns.
ScoreColumnTyped(rows) ==
    \E i \in 1..Len(rows) : ~IsNull(rows[i].infrastructure_score)

\* The names of the worldbank_<name>.csv files of the model: an indicator
\* name of collect_data, and a name whose file stem is no table name.
AuxNames == {"gdp_per_capita", "gdp-2020"}

\* The names for which raw_worldbank_<name> is a table name.
TableNames == {"gdp_per_capita"}

\* The worldbank_*.csv files: each is not there, a csv file read_csv_auto
\* reads, or a file it cannot read.
AuxFiles == [AuxNames -> {"absent", "csv", "unreadable"}]

\* No worldbank file is there.
NoAuxFiles == [n \in AuxNames |-> "absent"]

\* What a write to a file under data/final may come to: the file is written;
\* the file cannot be opened and stays as it was; the file is opened, which
\* empties it, and the write fails after that.
WriteOutcomes == {"written", "refused", "truncated"}

\* A file left empty or partial by a write that failed after opening it.
Truncated == [truncated |-> TRUE]

\* A fresh data directory and database, before the first main().
Fresh ==
    /\ db = [t \in DbObjects |-> Null]
    /\ files = [f \in OutputFiles |-> Null]
    /\ clock = 0
    /\ pc = "idle"
    /\ conn = "none"
    /\ closeCalls = 0
    /\ started = <<>>
    /\ raised = Null
    /\ retval = Null
    /\ mainResult = Null
    /\ written = <<>>
    /\ qcReturn = Null
    /\ calls = 0

Init ==
    /\ rawFile \in RawFiles(LifecycleRows, MaxRows)
    /\ auxFile \in AuxFiles
    /\ runsLeft = MaxRuns
    /\ Fresh

\* A faulty variant of Raise: the stage logs its error and run_pipeline goes on with
\* the next stage.
RaiseAndContinue(stage) ==
    /\ raised' = Some(stage)
    /\ pc' = CASE stage = "extract" -> "transform"
               [] stage = "transform" -> "load"
               [] stage = "load" -> "views"
               [] stage = "create_analytics_views" -> "quality"
               [] OTHER -> "success"

\* A stage raises: control goes to the except clause of run_pipeline.
Raise(stage) ==
    /\ raised' = Some(stage)
    /\ pc' = "except"

(***************************************************************************)
(* main(): pipeline = InfrastructureETL(), then pipeline.run_pipeline().   *)
(* __init__ creates the directories and connects; when a directory cannot  *)
(* be created (ok = FALSE) the exception leaves main().                    *)
(***************************************************************************)
Construct(ok) ==
    /\ pc \in {"idle", "exited", "escaped"}
    /\ runsLeft > 0
    /\ runsLeft' = runsLeft - 1
    /\ closeCalls' = 0
    /\ started' = <<>>
    /\ raised' = Null
    /\ retval' = Null
    /\ mainResult' = Null
    /\ written' = <<>>
    /\ qcReturn' = Null
    /\ conn' = IF ok THEN "open" ELSE "none"
    /\ pc' = IF ok THEN "extract" ELSE "escaped"
    /\ calls' = IF ok THEN 1 ELSE 0
    /\ UNCHANGED <<rawFile, auxFile, db, files, clock>>

\* extract(): the required file is loaded when it exists, then every
\* worldbank_*.csv file in the order glob gives them.  A statement raises on
\* a connection that is not open, on a file read_csv_auto cannot read and on
\* a file whose stem is no table name; the tables loaded before it stay (a
\* worldbank file that loads may have come first).  raw_infrastructure keeps
\* the rows of the file and whether its columns are there with the types
\* the first statement of transform needs (columns_ok).
Extract ==
    /\ pc = "extract"
    /\ started' = Append(started, "extract")
    /\ LET infraQuery == rawFile.kind # "absent"
           infraFails == infraQuery /\ (conn # "open" \/ rawFile.kind = "unreadable")
           found == { n \in AuxNames : auxFile[n] # "absent" }
           loadable == { n \in found : auxFile[n] = "csv" /\ n \in TableNames }
           auxFails == found # {} /\ (conn # "open" \/ loadable # found)
           afterInfra ==
               IF infraQuery /\ ~infraFails
               THEN [db EXCEPT !["raw_infrastructure"] =
                        Some([columns_ok |-> /\ rawFile.kind = "csv"
                                             /\ ScoreColumnTyped(rawFile.rows),
                              rows |-> rawFile.rows])]
               ELSE db
           afterAux == [afterInfra EXCEPT !["raw_worldbank_gdp_per_capita"] = Some(<<>>)]
       IN  IF infraFails
           THEN Raise("extract") /\ UNCHANGED db
           ELSE IF auxFails
           THEN /\ Raise("extract")
                /\ \E first \in (IF conn = "open" /\ loadable # {}
                                 THEN BOOLEAN ELSE {FALSE}) :
                       db' = IF first THEN afterAux ELSE afterInfra
           ELSE /\ db' = IF found # {} THEN afterAux ELSE afterInfra
                /\ pc' = "transform"
                /\ UNCHANGED raised
    /\ UNCHANGED <<rawFile, auxFile, files, clock, conn, closeCalls, retval,
                   mainResult, written, qcReturn, runsLeft,
                   calls>>

\* transform(): clean_infrastructure from raw_infrastructure, then
\* country_summary and yearly_trends from clean_infrastructure.  The first
\* statement raises when raw_infrastructure is missing, lacks a column, or
\* has a column of the arithmetic typed VARCHAR (a file without data rows,
\* a file in which no row has a score): the binder rejects the statement
\* and no table is changed.
Transform ==
    /\ pc = "transform"
    /\ started' = Append(started, "transform")
    /\ IF \/ conn # "open"
          \/ IsNull(db["raw_infrastructure"])
          \/ ~Val(db["raw_infrastructure"]).columns_ok
       THEN Raise("transform") /\ UNCHANGED db
       ELSE /\ \E clean \in CleanInfrastructure(Val(db["raw_infrastructure"]).rows) :
                 db' = [db EXCEPT !["clean_infrastructure"] = Some(clean),
                                  !["country_summary"] = Some(CountrySummary(clean)),
                                  !["yearly_trends"] = Some(YearlyTrends(clean))]
            /\ pc' = "load"
            /\ UNCHANGED raised
    /\ UNCHANGED <<rawFile, auxFile, files, clock, conn, closeCalls, retval,
                   mainResult, written, qcReturn, runsLeft,
                   calls>>

\* The byte strings DuckDB's writer may give the same rows in the same format:
\* the layout of the rows of a relation made without ORDER BY (country_summary
\* is GROUP BY country, and is kept as a set of rows), the spelling of the
\* numbers, the footer of a parquet file.  The statements of load do not
\* decide them, and two writes of the same rows may differ in them.
Encodings == {1, 2}

\* COPY <table> TO <file> (FORMAT PARQUET) / (FORMAT CSV, HEADER): the file
\* holds the rows of the relation, the csv file under a header line, in the
\* encoding the writer gave them.
CopyTo(relation, format, encoding) ==
    [format |-> format, header |-> format = "csv", rows |-> relation,
     encoding |-> encoding]

\* The first write of load that fails, 0 when none does: write k in 1..6 is
\* the COPY to ExportFiles[k], write 7 the counting and saving of the
\* metadata.  failAt is the write the file system refuses (0: none); a COPY
\* also fails on a closed connection or a missing table.
LoadStop(failAt) ==
    LET broken == { k \in 1..Len(ExportFiles) :
                      \/ failAt = k
                      \/ conn # "open"
                      \/ IsNull(db[ExportFiles[k].table]) }
                  \cup { k \in {Len(ExportFiles) + 1} : failAt = k \/ conn # "open" }
    IN  IF broken = {} THEN 0 ELSE Min(broken)

\* load(): the six COPY statements in order, then the metadata file.  The
\* files written before a failing write stay written; the file of the
\* failing write stays as it was when it could not be opened (how =
\* "refused") and is left empty or partial when the write failed after the
\* file was opened (how = "truncated").  The COPY statements write in the
\* encoding the writer gives them in this load.
Load(failAt, how, encoding) ==
    /\ pc = "load"
    /\ started' = Append(started, "load")
    /\ LET stop == LoadStop(failAt)
           copied == IF stop = 0 THEN Len(ExportFiles) ELSE stop - 1
           exported == { ExportFiles[i] : i \in 1..copied }
           target == IF stop = Len(ExportFiles) + 1 THEN MetadataFile
                     ELSE ExportFiles[stop]
           opened == /\ stop # 0
                     /\ stop = failAt
                     /\ how = "truncated"
                     /\ conn = "open"
                     /\ stop <= Len(ExportFiles) => ~IsNull(db[ExportFiles[stop].table])
       IN  /\ files' = [f \in OutputFiles |->
                          IF f \in exported
                          THEN Some(CopyTo(Val(db[f.table]), f.format, encoding))
                          ELSE IF f = MetadataFile /\ stop = 0
                          THEN Some(Metadata(db, clock))
                          ELSE IF opened /\ f = target
                          THEN Some(Truncated)
                          ELSE files[f]]
           /\ written' = written \o SubSeq(ExportFiles, 1, copied)
                                 \o (IF stop = 0 THEN <<MetadataFile>> ELSE <<>>)
           /\ clock' = IF copied = Len(ExportFiles) THEN clock + 1 ELSE clock
           /\ IF stop = 0
              THEN pc' = "views" /\ UNCHANGED raised
              ELSE Raise("load")
    /\ UNCHANGED <<rawFile, auxFile, db, conn, closeCalls, retval, mainResult,
                   qcReturn, runsLeft,
                   calls>>

\* create_analytics_views(): CREATE OR REPLACE VIEW top_performers, then its
\* COPY to top_performers.csv, with the outcome the file system gives it and
\* in the encoding the writer gives it.
CreateAnalyticsViews(outcome, encoding) ==
    /\ pc = "views"
    /\ started' = Append(started, "create_analytics_views")
    /\ IF \/ conn # "open"
          \/ IsNull(db["country_summary"])
          \/ IsNull(db["clean_infrastructure"])
       THEN Raise("create_analytics_views") /\ UNCHANGED <<db, files, written>>
       ELSE /\ db' = [db EXCEPT !["top_performers"] = Some(<<>>)]
            /\ IF outcome = "written"
               THEN /\ \E rows \in TopPerformers(Val(db["country_summary"]),
                                                 Val(db["clean_infrastructure"])) :
                         files' = [files EXCEPT ![TopPerformersFile] =
                                      Some(CopyTo(rows, "csv", encoding))]
                    /\ written' = Append(written, TopPerformersFile)
                    /\ pc' = "quality"
                    /\ UNCHANGED raised
               ELSE /\ Raise("create_analytics_views")
                    /\ files' = IF outcome = "truncated"
                                THEN [files EXCEPT ![TopPerformersFile] = Some(Truncated)]
                                ELSE files
                    /\ UNCHANGED written
    /\ UNCHANGED <<rawFile, auxFile, clock, conn, closeCalls, retval, mainResult,
                   qcReturn, runsLeft,
                   calls>>

\* run_quality_checks(): the two counting queries, then the report file:
\* open(report_file, 'w') and json.dump, with the outcome the file system
\* gives them.
RunQualityChecks(outcome) ==
    /\ pc = "quality"
    /\ started' = Append(started, "run_quality_checks")
    /\ IF conn # "open" \/ IsNull(db["clean_infrastructure"])
       THEN Raise("run_quality_checks") /\ UNCHANGED <<files, written, clock, qcReturn>>
       ELSE LET report == QualityReport(Val(db["clean_infrastructure"]), clock)
            IN  /\ clock' = clock + 1
                /\ IF outcome = "written"
                   THEN /\ files' = [files EXCEPT ![QualityReportFile] = Some(report)]
                        /\ written' = Append(written, QualityReportFile)
                        /\ qcReturn' = Some(report.all_passed)
                        /\ pc' = "success"
                        /\ UNCHANGED raised
                   ELSE /\ Raise("run_quality_checks")
                        /\ files' = IF outcome = "truncated"
                                    THEN [files EXCEPT ![QualityReportFile] =
                                             Some(Truncated)]
                                    ELSE files
                        /\ UNCHANGED <<written, qcReturn>>
    /\ UNCHANGED <<rawFile, auxFile, db, conn, closeCalls, retval, mainResult,
                   runsLeft,
                   calls>>

\* run_pipeline, after the last stage: the summary is printed and the try
\* block returns True.  The print calls are inside the try block: when
\* stdout cannot take them (printed = FALSE: an encoding without the emoji,
\* a closed pipe) the exception goes to the except clause with no stage
\* having raised.
ReturnTrue(printed) ==
    /\ pc = "success"
    /\ IF printed
       THEN retval' = Some(TRUE) /\ pc' = "finally"
       ELSE retval' = retval /\ pc' = "except"
    /\ UNCHANGED <<rawFile, auxFile, db, files, clock, conn, closeCalls, started,
                   raised, mainResult, written, qcReturn, runsLeft,
                   calls>>

\* run_pipeline: except Exception: the error is logged, the result is False.
Except ==
    /\ pc = "except"
    /\ retval' = Some(FALSE)
    /\ pc' = "finally"
    /\ UNCHANGED <<rawFile, auxFile, db, files, clock, conn, closeCalls, started,
                   raised, mainResult, written, qcReturn, runsLeft,
                   calls>>

\* A faulty variant of Close: the call is logged and the connection is left
\* as it was.
CloseKeepsOpen ==
    /\ conn' = conn
    /\ closeCalls' = closeCalls + 1

\* close(): self.conn.close().
Close ==
    /\ conn' = "closed"
    /\ closeCalls' = closeCalls + 1

\* A faulty variant of Finally: close() is the last statement of the try block, not a
\* finally clause: it is skipped when a stage raised.
FinallyOnSuccess ==
    /\ pc = "finally"
    /\ IF IsNull(raised)
       THEN /\ conn' = "closed"
            /\ closeCalls' = closeCalls + 1
       ELSE UNCHANGED <<conn, closeCalls>>
    /\ pc' = "returned"
    /\ UNCHANGED <<rawFile, auxFile, db, files, clock, started, raised, retval,
                   mainResult, written, qcReturn, runsLeft,
                   calls>>

\* run_pipeline: finally: self.close(), and run_pipeline returns.
Finally ==
    /\ pc = "finally"
    /\ Close
    /\ pc' = "returned"
    /\ UNCHANGED <<rawFile, auxFile, db, files, clock, started, raised, retval,
                   mainResult, written, qcReturn, runsLeft,
                   calls>>

\* main(): success = pipeline.run_pipeline(); the result is printed; return
\* success.  The print calls are outside any try block: when stdout cannot
\* take them (printed = FALSE) the exception leaves main().
MainReturn(printed) ==
    /\ pc = "returned"
    /\ mainResult' = IF printed THEN retval ELSE Null
    /\ pc' = IF printed THEN "exited" ELSE "escaped"
    /\ UNCHANGED <<rawFile, auxFile, db, files, clock, conn, closeCalls, started,
                   raised, retval, written, qcReturn, runsLeft,
                   calls>>

\* The countries list of download_sample_infrastructure_data, each country
\* as its place among the 15 in the order of their names.
SampleCountries == <<15, 4, 10, 6, 7, 14, 5, 9, 2, 3, 12, 13, 1, 11, 8>>

\* The row of the sample file for the country at index idx (from 0) of the
\* list and year y.  base_score + year_improvement is a multiple of 0.5: the
\* scores of the sample file are counted in halves of a point.
SampleRow(idx, y) ==
    LET score == 2 * (50 + idx * 2) + (y - 2010)
    IN  [country |-> SampleCountries[idx + 1], year |-> y,
         infrastructure_score |-> Some(score),
         transport_resilience |-> score + 10, energy_resilience |-> score - 10,
         water_resilience |-> score + 4, digital_resilience |-> score + 20]

\* years = list(range(2010, 2024))
SampleYears == [k \in 1..14 |-> 2009 + k]

\* data/raw/infrastructure_resilience_scores.csv as
\* download_sample_infrastructure_data writes it: for each country in list
\* order its years in order, 15 * 14 = 210 rows.
SampleFile ==
    [kind |-> "csv",
     rows |-> [i \in 1..(Len(SampleCountries) * Len(SampleYears)) |->
                 SampleRow((i - 1) \div Len(SampleYears),
                           SampleYears[1 + ((i - 1) % Len(SampleYears))])]]

\* The process is between two executions of main().
BetweenExecutions == pc \in {"exited", "escaped"} /\ runsLeft > 0

\* The process is between two calls of run_pipeline on one object.
BetweenCalls == pc = "returned" /\ calls < MaxCalls

\* collect_data.download_sample_infrastructure_data(): the required input
\* file is created or replaced by the sample file.
DownloadSampleInfrastructureData(when) ==
    /\ when
    /\ rawFile # SampleFile
    /\ rawFile' = SampleFile
    /\ UNCHANGED <<auxFile, db, files, clock, pc, conn, closeCalls, started,
                   raised, retval, mainResult, written, qcReturn, runsLeft,
                   calls>>

\* collect_data.download_world_bank_indicator(code, name) with a response
\* that has data: worldbank_<name>.csv is created, or replaced when it is
\* there, and is a csv file read_csv_auto reads.
DownloadWorldBankIndicator(when, name) ==
    /\ when
    /\ auxFile[name] # "csv"
    /\ auxFile' = [auxFile EXCEPT ![name] = "csv"]
    /\ UNCHANGED <<rawFile, db, files, clock, pc, conn, closeCalls, started,
                   raised, retval, mainResult, written, qcReturn, runsLeft,
                   calls>>

\* Between two executions of main() the required input file is removed.
RemoveRawFile ==
    /\ pc \in {"exited", "escaped"}
    /\ runsLeft > 0
    /\ rawFile.kind # "absent"
    /\ rawFile' = AbsentFile
    /\ UNCHANGED <<auxFile, db, files, clock, pc, conn, closeCalls, started,
                   raised, retval, mainResult, written, qcReturn, runsLeft,
                   calls>>

Next ==
    \/ \E ok \in BOOLEAN : Construct(ok)
    \/ Extract
    \/ Transform
    \/ \E failAt \in 0..(Len(ExportFiles) + 1), how \in {"refused", "truncated"},
          encoding \in Encodings :
           Load(failAt, how, encoding)
    \/ \E outcome \in WriteOutcomes, encoding \in Encodings :
           CreateAnalyticsViews(outcome, encoding)
    \/ \E outcome \in WriteOutcomes : RunQualityChecks(outcome)
    \/ \E printed \in BOOLEAN : ReturnTrue(printed)
    \/ Except
    \/ Finally
    \/ \E printed \in BOOLEAN : MainReturn(printed)
    \/ RemoveRawFile
    \/ DownloadSampleInfrastructureData(BetweenExecutions)
    \/ \E name \in AuxNames : DownloadWorldBankIndicator(BetweenExecutions, name)

Spec == Init /\ [][Next]_vars

(***************************************************************************)
(* One execution of main() on a file system that refuses nothing and a     *)
(* writer of one encoding, over every input file of up to MaxDataRows      *)
(* rows: what the stages compute.                                          *)
(***************************************************************************)
InitData ==
    /\ rawFile \in RawFiles(DataRows, MaxDataRows)
    /\ auxFile = NoAuxFiles
    /\ runsLeft = 1
    /\ Fresh

NextData ==
    \/ Construct(TRUE)
    \/ Extract
    \/ Transform
    \/ Load(0, "written", 1)
    \/ CreateAnalyticsViews("written", 1)
    \/ RunQualityChecks("written")
    \/ ReturnTrue(TRUE)
    \/ Except
    \/ Finally
    \/ MainReturn(TRUE)

SpecData == InitData /\ [][NextData]_vars

(***************************************************************************)
(* Executions of main() over every input file of up to MaxQualityRows      *)
(* rows, on a file system that takes the files of load and of              *)
(* create_analytics_views and gives the write of quality_report.json every *)
(* outcome: what run_quality_checks leaves behind.                         *)
(***************************************************************************)
InitQuality ==
    /\ rawFile \in RawFiles(DataRows, MaxQualityRows)
    /\ auxFile = NoAuxFiles
    /\ runsLeft = MaxRuns
    /\ Fresh

NextQuality ==
    \/ Construct(TRUE)
    \/ Extract
    \/ Transform
    \/ Load(0, "written", 1)
    \/ CreateAnalyticsViews("written", 1)
    \/ \E outcome \in WriteOutcomes : RunQualityChecks(outcome)
    \/ ReturnTrue(TRUE)
    \/ Except
    \/ Finally
    \/ MainReturn(TRUE)

SpecQuality == InitQuality /\ [][NextQuality]_vars

(***************************************************************************)
(* What the claims speak of.                                               *)
(***************************************************************************)
\* The stages in the order run_pipeline is to run them.
StageOrder ==
    <<"extract", "transform", "load", "create_analytics_views", "run_quality_checks">>

Range(q) == { q[i] : i \in 1..Len(q) }

\* The process is inside run_pipeline.
InRunPipeline ==
    pc \in {"extract", "transform", "load", "views", "quality", "success",
            "except", "finally"}

\* run_pipeline has returned (main may have returned after it).
Returned == pc \in {"returned", "exited"}

\* Stage number k was started in this execution and did not raise.
Completed(k) == Len(started) >= k /\ raised # Some(StageOrder[k])

\* The relations of the database, where they exist.
RawTable == Val(db["raw_infrastructure"]).rows
Clean == Val(db["clean_infrastructure"])

\* quality_report.json, where this execution wrote it.
ReportWritten == QualityReportFile \in Range(written)
Report == Val(files[QualityReportFile])

\* C1: the stages start in the fixed order, a stage starts only when every
\* earlier one completed without raising, the stage that raised is the last
\* one started (nothing is started or retried after it), and run_pipeline
\* then returns False.
C1_SequentialStopOnFirstFailure ==
    /\ Len(started) <= Len(StageOrder)
    /\ \A i \in 1..Len(started) : started[i] = StageOrder[i]
    /\ ~IsNull(raised) => started # <<>> /\ Val(raised) = started[Len(started)]
    /\ ~IsNull(raised) /\ Returned => retval = Some(FALSE)

C1_Witness ==
    /\ pc = "returned"
    /\ raised = Some("load")
    /\ started = <<"extract", "transform", "load">>
    /\ retval = Some(FALSE)

\* C2: in every execution of run_pipeline close() is called exactly once,
\* after the last stage and before run_pipeline returns: the connection is
\* open and unclosed while the stages run, and closed by one call once
\* run_pipeline has returned, on the success path and on the failure path.
C2_ClosedExactlyOnce ==
    /\ InRunPipeline => conn = "open" /\ closeCalls = 0
    /\ Returned => conn = "closed" /\ closeCalls = 1

C2_Witness ==
    /\ pc = "returned"
    /\ raised = Some("transform")
    /\ conn = "closed"
    /\ closeCalls = 1

\* C3, as claimed: once run_pipeline has returned, its result is True
\* exactly when no stage raised, whatever run_quality_checks returned as
\* all_passed.
C3_QualityFailureNotFatal ==
    Returned => (retval = Some(TRUE) <=> IsNull(raised))

\* C4, as claimed: in an execution that starts with the required file absent,
\* extract does not raise, transform raises, no file under data/final is
\* written, and run_pipeline returns False.
C4_MissingInputFailsAtTransform ==
    rawFile.kind = "absent" /\ (InRunPipeline \/ pc = "returned") =>
        /\ raised # Some("extract")
        /\ Len(started) <= 2
        /\ Len(started) = 2 => raised = Some("transform")
        /\ written = <<>>
        /\ pc = "returned" => retval = Some(FALSE)

\* C5, as claimed: no failure to create or to write the output directory
\* leaves main() as an exception; main() returns False and the connection
\* is closed.
C5_OutputFailureReported ==
    /\ pc # "escaped"
    /\ pc = "exited" /\ raised = Some("load") =>
           mainResult = Some(FALSE) /\ conn = "closed"

\* The checks of the report are null_values then duplicates, and all_passed
\* is the conjunction of their passed flags.
ReportWellFormed ==
    /\ Len(Report.checks) = 2
    /\ Report.checks[1].check = "null_values"
    /\ Report.checks[2].check = "duplicates"
    /\ Report.all_passed = (Report.checks[1].passed /\ Report.checks[2].passed)

\* C6, as claimed: in every execution in which the four stages before
\* run_quality_checks completed, run_quality_checks (once it has run) has
\* written the report, with the two checks and their conjunction.
C6_ReportAlwaysWritten ==
    Len(started) = 5 => ReportWritten /\ ReportWellFormed

\* C6, amended: in every execution in which the four stages before it
\* completed, run_quality_checks either writes the report, whose checks are
\* null_values then duplicates and whose all_passed is the conjunction of
\* their passed flags, whether or not a check failed, or fails in the write
\* of quality_report.json and raises: then the execution has written no
\* report, the file is as it was before the stage or is left empty or
\* partial, no other file is changed, and run_pipeline returns False.
C6_ReportWrittenOrStageRaises ==
    /\ [](Len(started) = 5 =>
             /\ raised \in {Null, Some("run_quality_checks")}
             /\ IsNull(raised) =>
                    /\ ReportWritten
                    /\ ReportWellFormed
                    /\ Report.checks = Checks(Clean)
             /\ raised = Some("run_quality_checks") =>
                    /\ ~ReportWritten
                    /\ IsNull(qcReturn)
                    /\ pc = "returned" => retval = Some(FALSE))
    /\ [][ (pc = "quality" /\ Len(started) = 4) =>
              /\ \A f \in OutputFiles \ {QualityReportFile} : files'[f] = files[f]
              /\ \/ /\ pc' = "success"
                    /\ files'[QualityReportFile]
                           = Some(QualityReport(Clean, clock))
                    /\ written' = Append(written, QualityReportFile)
                 \/ /\ pc' = "except"
                    /\ raised' = Some("run_quality_checks")
                    /\ files'[QualityReportFile]
                           \in {files[QualityReportFile], Some(Truncated)}
                    /\ written' = written ]_vars

\* Over a file of two records, one with a score and one without, of
\* different countries, run_quality_checks has written the report: the
\* null_values check failed, the duplicates check passed, all_passed is
\* False.
C6_Witness ==
    /\ Len(started) = 5
    /\ IsNull(raised)
    /\ ReportWritten
    /\ Len(Clean) = 2
    /\ Clean[1].country # Clean[2].country
    /\ ~Report.checks[1].passed
    /\ Report.checks[2].passed
    /\ ~Report.all_passed

\* The (country, year) pairs that more than one row of the relation carries.
DuplicatedPairs(rel) ==
    { g \in Countries \X Years :
        \E i, j \in 1..Len(rel) :
            /\ i # j
            /\ <<rel[i].country, rel[i].year>> = g
            /\ <<rel[j].country, rel[j].year>> = g }

\* The rows of the relation whose infrastructure_score is NULL.
NullScoreRows(rel) == { i \in 1..Len(rel) : rel[i].infrastructure_score = Null }

\* C7: the duplicates check of a written report passes exactly when no
\* (country, year) pair of clean_infrastructure is carried by more than one
\* row, and its details give the number of such pairs (1 for one duplicated
\* pair); with no such pair and no NULL score all_passed is true.
C7_DuplicatesCheck ==
    ReportWritten =>
        LET n == Cardinality(DuplicatedPairs(Clean))
            chk == Report.checks[2]
        IN  /\ chk.check = "duplicates"
            /\ chk.passed = (n = 0)
            /\ chk.details = <<"Found ", n, " duplicate records">>
            /\ n = 0 /\ NullScoreRows(Clean) = {} => Report.all_passed

C7_Witness ==
    /\ ReportWritten
    /\ Cardinality(DuplicatedPairs(Clean)) = 1
    /\ Len(Clean) = 3
    /\ ~Report.checks[2].passed
    /\ Report.checks[2].details[2] = 1

\* C8: the null_values check of a written report passes exactly when no row
\* of clean_infrastructure has a NULL infrastructure_score, and its details
\* give the number of such rows.
C8_NullValuesCheck ==
    ReportWritten =>
        LET n == Cardinality(NullScoreRows(Clean))
            chk == Report.checks[1]
        IN  /\ chk.check = "null_values"
            /\ chk.passed = (n = 0)
            /\ chk.details = <<"Found ", n, " null values">>

C8_Witness ==
    /\ ReportWritten
    /\ Cardinality(NullScoreRows(Clean)) = 1
    /\ Len(Clean) = 2
    /\ ~Report.checks[1].passed

\* The columns clean_infrastructure takes over from raw_infrastructure agree.
SameSourceColumns(c, r) ==
    /\ c.country = r.country
    /\ c.year = r.year
    /\ c.infrastructure_score = r.infrastructure_score
    /\ c.transport_resilience = r.transport_resilience
    /\ c.energy_resilience = r.energy_resilience
    /\ c.water_resilience = r.water_resilience
    /\ c.digital_resilience = r.digital_resilience

\* C9: after transform over a raw_infrastructure without a duplicated
\* (country, year) pair, every raw row of year >= 2010 has exactly one clean
\* row, every clean row is of year >= 2010 and comes from a raw row, and the
\* clean rows ascend strictly by (country, year).
C9_CleanIsFilteredSorted ==
    Completed(2) /\ DuplicatedPairs(RawTable) = {} =>
        /\ \A i \in 1..Len(RawTable) :
              RawTable[i].year >= 2010 =>
                  Cardinality({ k \in 1..Len(Clean) :
                                  SameSourceColumns(Clean[k], RawTable[i]) }) = 1
        /\ \A k \in 1..Len(Clean) :
              /\ Clean[k].year >= 2010
              /\ \E i \in 1..Len(RawTable) : SameSourceColumns(Clean[k], RawTable[i])
        /\ Len(Clean) = Cardinality({ i \in 1..Len(RawTable) : RawTable[i].year >= 2010 })
        /\ \A k \in 1..(Len(Clean) - 1) :
              \/ Clean[k].country < Clean[k + 1].country
              \/ /\ Clean[k].country = Clean[k + 1].country
                 /\ Clean[k].year < Clean[k + 1].year

\* A raw file of three rows out of order, one of them before 2010.
C9_Witness ==
    /\ Completed(2)
    /\ DuplicatedPairs(RawTable) = {}
    /\ Len(RawTable) = 3
    /\ RawTable[1].country = 2
    /\ RawTable[2].year = 2009
    /\ RawTable[3].country = 1
    /\ Len(Clean) = 2

\* The rows of country c in the relation.
RowsOf(rel, c) == { i \in 1..Len(rel) : rel[i].country = c }

\* C10: after transform, for every country whose clean rows are of distinct
\* years, score_change of its row of the earliest year is NULL, and
\* score_change of each other row is its score minus the score of the
\* country's row of the latest earlier year (NULL when either is NULL).
C10_ScoreChangeIsLagPerCountry ==
    Completed(2) =>
        \A c \in Countries :
            LET mine == RowsOf(Clean, c)
            IN  (\A i, j \in mine : i # j => Clean[i].year # Clean[j].year) =>
                \A i \in mine :
                    LET earlier == { j \in mine : Clean[j].year < Clean[i].year }
                    IN  IF earlier = {}
                        THEN Clean[i].score_change = Null
                        ELSE LET prev == CHOOSE j \in earlier :
                                            \A l \in earlier : Clean[l].year <= Clean[j].year
                             IN  Clean[i].score_change =
                                     Minus(Clean[i].infrastructure_score,
                                           Clean[prev].infrastructure_score)

\* Country 1 in 2010 and 2013, country 2 in 2011 between them.
C10_Witness ==
    /\ Completed(2)
    /\ Len(Clean) = 3
    /\ Clean[1].country = 1 /\ Clean[1].year = 2010 /\ Clean[1].score_change = Null
    /\ Clean[2].country = 1 /\ Clean[2].year = 2013 /\ Clean[2].score_change = Some(1)
    /\ Clean[3].country = 2 /\ Clean[3].year = 2011 /\ Clean[3].score_change = Null

(***************************************************************************)
(* transform over input files of one row per country, up to MaxRankRows    *)
(* countries, each row in one of two years with one of three scores: the   *)
(* ranking within a year.                                                  *)
(***************************************************************************)
RankYears == {2010, 2011}
RankScores == {1, 2, 3}

\* The input file of countries 1..n, country c in year y[c] with score s[c].
RankFile(n, y, s) ==
    [kind |-> "csv",
     rows |-> [c \in 1..n |->
                 [country |-> c, year |-> y[c], infrastructure_score |-> Some(s[c]),
                  transport_resilience |-> 2, energy_resilience |-> 4,
                  water_resilience |-> 6, digital_resilience |-> 8]]]

RankFiles ==
    UNION { { RankFile(n, y, s) : y \in [1..n -> RankYears], s \in [1..n -> RankScores] } :
            n \in 0..MaxRankRows }

InitRank ==
    /\ rawFile \in RankFiles
    /\ auxFile = NoAuxFiles
    /\ runsLeft = 1
    /\ Fresh

NextRank ==
    \/ Construct(TRUE)
    \/ Extract
    \/ Transform

SpecRank == InitRank /\ [][NextRank]_vars

\* C11: after transform, yearly_rank of every clean row with a score is one
\* more than the number of rows of the same year with a strictly higher
\* score: the highest score of a year has rank 1, equal scores of a year have
\* equal ranks, and the rank after a tie skips (1, 2, 2, 4).
C11_StandardCompetitionRank ==
    Completed(2) =>
        \A k \in 1..Len(Clean) :
            ~IsNull(Clean[k].infrastructure_score) =>
                Clean[k].yearly_rank =
                    1 + Cardinality({ j \in 1..Len(Clean) :
                            /\ Clean[j].year = Clean[k].year
                            /\ ~IsNull(Clean[j].infrastructure_score)
                            /\ Val(Clean[j].infrastructure_score)
                                   > Val(Clean[k].infrastructure_score) })

\* Four countries in 2010 with scores 2, 3, 1, 2: ranks 2, 1, 4, 2.
C11_Witness ==
    /\ Completed(2)
    /\ Len(Clean) = 4
    /\ \A k \in 1..4 : Clean[k].year = 2010
    /\ Clean[1].yearly_rank = 2
    /\ Clean[2].yearly_rank = 1
    /\ Clean[3].yearly_rank = 4
    /\ Clean[4].yearly_rank = 2

Trends == Val(db["yearly_trends"])

\* C12: after transform, num_countries of every yearly_trends row is the
\* number of distinct countries with a record of that year in
\* clean_infrastructure, and score_std_dev is NULL whenever num_countries = 1,
\* duplicate (country, year) records included.
C12_StdDevNullForOneCountry ==
    Completed(2) =>
        \A k \in 1..Len(Trends) :
            /\ Trends[k].num_countries =
                   Cardinality({ Clean[i].country :
                                   i \in { i \in 1..Len(Clean) :
                                             Clean[i].year = Trends[k].year } })
            /\ Trends[k].num_countries = 1 => IsNull(Trends[k].score_std_dev)

(***************************************************************************)
(* One healthy run up to create_analytics_views over input files of up to  *)
(* MaxTopRows countries, more than the view keeps: every country has a     *)
(* record in the latest year, some also an older record of a higher score. *)
(***************************************************************************)
TopLatestYears == {2011, 2013}
TopShifts == {0, 1, 2}
TopOlder == {0, 1, 2}
\* The scores of the latest year repeat after this many countries: every
\* fourth country ties, or no two do.
TopModuli == {4, MaxTopRows + 1}

\* The input file of countries 1..n: the first o of them have a record of
\* 2010 with a score above every score of the latest year y, and country c
\* has the record of year y with score ((c + k) % m) + 1.
TopFile(n, k, m, o, y) ==
    [kind |-> "csv",
     rows |-> [i \in 1..(o + n) |->
                 [country |-> IF i <= o THEN i ELSE i - o,
                  year |-> IF i <= o THEN FilterYear ELSE y,
                  infrastructure_score |->
                      IF i <= o THEN Some(m + 5) ELSE Some(((i - o + k) % m) + 1),
                  transport_resilience |-> 2, energy_resilience |-> 4,
                  water_resilience |-> 6, digital_resilience |-> 8]]]

TopFiles ==
    { TopFile(n, k, m, Min({o, n}), y) :
        n \in 0..MaxTopRows, k \in TopShifts, m \in TopModuli, o \in TopOlder,
        y \in TopLatestYears }

InitTop ==
    /\ rawFile \in TopFiles
    /\ auxFile = NoAuxFiles
    /\ runsLeft = 1
    /\ Fresh

NextTop ==
    \/ Construct(TRUE)
    \/ Extract
    \/ Transform
    \/ Load(0, "written", 1)
    \/ CreateAnalyticsViews("written", 1)

SpecTop == InitTop /\ [][NextTop]_vars

\* The rows of top_performers.csv.
Top == Val(files[TopPerformersFile]).rows

\* The records of clean_infrastructure of its latest year.
LatestRecords ==
    { i \in 1..Len(Clean) : \A j \in 1..Len(Clean) : Clean[j].year <= Clean[i].year }

\* The records of the latest year that row k of top_performers.csv may come from.
TopSources(k) ==
    { i \in LatestRecords : /\ Clean[i].country = Top[k].country
                            /\ Clean[i].infrastructure_score = Top[k].latest_score
                            /\ Clean[i].yearly_rank = Top[k].latest_rank }

\* C13: after create_analytics_views, top_performers.csv has at most 10 rows
\* (all the records of the latest year when there are fewer), every row is a
\* record of the latest year of clean_infrastructure, the rows are in
\* descending order of latest_score, and no record of that year left out has
\* a higher score than a row of the file.
C13_TopPerformers ==
    Completed(4) =>
        /\ Len(Top) <= 10
        /\ Len(Top) = Min({10, Cardinality(LatestRecords)})
        /\ \A k \in 1..Len(Top) : TopSources(k) # {}
        /\ \A a, b \in 1..Len(Top) :
               a < b => Val(Top[a].latest_score) >= Val(Top[b].latest_score)
        /\ \A i \in LatestRecords :
               (\A k \in 1..Len(Top) : i \notin TopSources(k)) =>
                   \A k \in 1..Len(Top) :
                       Val(Clean[i].infrastructure_score) <= Val(Top[k].latest_score)

\* Eleven records in the latest year, 2013, and an older record of a higher
\* score: the file has ten rows, one record of 2013 is left out.
C13_Witness ==
    /\ Completed(4)
    /\ Len(Top) = 10
    /\ Cardinality(LatestRecords) = 11
    /\ \E i \in LatestRecords : Clean[i].year = 2013
    /\ \E i \in 1..Len(Clean) :
           /\ i \notin LatestRecords
           /\ Val(Clean[i].infrastructure_score) > Val(Top[1].latest_score)

\* pipeline_metadata.json.
MetadataWritten == Val(files[MetadataFile])

\* The relations whose parquet and csv files this execution wrote.
Persisted ==
    { t \in { "clean_infrastructure", "country_summary", "yearly_trends",
              "top_performers" } :
        /\ [table |-> t, format |-> "parquet"] \in Range(written)
        /\ [table |-> t, format |-> "csv"] \in Range(written) }

\* The number of rows in an output file of load.
FileRows(f) ==
    LET rows == Val(files[f]).rows
    IN  IF f.table = "country_summary" THEN Cardinality(rows) ELSE Len(rows)

\* C14: after load completes, pipeline_metadata.json was written in this
\* execution, its tables_created names exactly the three relations whose
\* files load wrote, each once, and record_counts gives for each of them the
\* number of rows in its parquet file and in its csv file.
C14_MetadataMatchesFiles ==
    Completed(3) =>
        /\ MetadataFile \in Range(written)
        /\ Persisted = {"clean_infrastructure", "country_summary", "yearly_trends"}
        /\ Range(MetadataWritten.tables_created) = Persisted
        /\ Len(MetadataWritten.tables_created) = Cardinality(Persisted)
        /\ DOMAIN MetadataWritten.record_counts = Persisted
        /\ \A t \in Persisted :
               /\ MetadataWritten.record_counts[t]
                      = FileRows([table |-> t, format |-> "parquet"])
               /\ MetadataWritten.record_counts[t]
                      = FileRows([table |-> t, format |-> "csv"])

\* Three clean records of two countries in two years.
C14_Witness ==
    /\ Completed(3)
    /\ MetadataWritten.record_counts["clean_infrastructure"] = 3
    /\ MetadataWritten.record_counts["country_summary"] = 2
    /\ MetadataWritten.record_counts["yearly_trends"] = 2

Summary == Val(db["country_summary"])

\* The scores of the clean_infrastructure records of country c.
ScoresOf(c) ==
    { Val(Clean[i].infrastructure_score) :
        i \in { i \in RowsOf(Clean, c) : ~IsNull(Clean[i].infrastructure_score) } }

\* C15, as claimed: after transform, score_improvement of every country of
\* country_summary is a number, the highest score of the country's
\* clean_infrastructure records less the lowest, and is >= 0.
C15_ScoreImprovementNonNegative ==
    Completed(2) =>
        \A r \in Summary :
            /\ ~IsNull(r.score_improvement)
            /\ ScoresOf(r.country) # {}
            /\ Val(r.score_improvement)
                   = Max(ScoresOf(r.country)) - Min(ScoresOf(r.country))
            /\ Val(r.score_improvement) >= 0

\* C15, amended: after transform, country_summary has one row for every
\* country of clean_infrastructure; for a country with a score on at least
\* one record score_improvement is the highest of its scores less the
\* lowest, and is >= 0; for a country with no score on any record
\* min_score, max_score and score_improvement are NULL.
C15_ScoreImprovementOfScored ==
    Completed(2) =>
        /\ \A i \in 1..Len(Clean) :
               Cardinality({ r \in Summary : r.country = Clean[i].country }) = 1
        /\ \A r \in Summary :
               /\ RowsOf(Clean, r.country) # {}
               /\ IF ScoresOf(r.country) = {}
                  THEN /\ IsNull(r.min_score)
                       /\ IsNull(r.max_score)
                       /\ IsNull(r.score_improvement)
                  ELSE /\ r.score_improvement
                              = Some(Max(ScoresOf(r.country)) - Min(ScoresOf(r.country)))
                       /\ r.max_score = Some(Max(ScoresOf(r.country)))
                       /\ r.min_score = Some(Min(ScoresOf(r.country)))
                       /\ Val(r.score_improvement) >= 0

\* One country whose scores differ by 1 and one country with no score, its
\* min_score, max_score and score_improvement NULL.
C15_Witness ==
    /\ Completed(2)
    /\ \E r \in Summary : r.score_improvement = Some(1)
    /\ \E r \in Summary :
           IsNull(r.min_score) /\ IsNull(r.max_score) /\ IsNull(r.score_improvement)

\* The outputs of a run in the order the claim gives them.
WriteOrder ==
    << [table |-> "clean_infrastructure", format |-> "parquet"],
       [table |-> "clean_infrastructure", format |-> "csv"],
       [table |-> "country_summary", format |-> "parquet"],
       [table |-> "country_summary", format |-> "csv"],
       [table |-> "yearly_trends", format |-> "parquet"],
       [table |-> "yearly_trends", format |-> "csv"],
       [table |-> "pipeline_metadata", format |-> "json"],
       [table |-> "top_performers", format |-> "csv"],
       [table |-> "quality_report", format |-> "json"] >>

\* The files an execution has written are the first ones of WriteOrder and
\* hold what was written; a True result comes with all nine written in the
\* execution; the metadata is among them only after a load that completed
\* and the quality report only after a run_quality_checks that completed.
WrittenInOrder ==
    /\ Len(written) <= Len(WriteOrder)
    /\ \A i \in 1..Len(written) :
           /\ written[i] = WriteOrder[i]
           /\ ~IsNull(files[written[i]])
           /\ files[written[i]] # Some(Truncated)
    /\ retval = Some(TRUE) => written = WriteOrder
    /\ MetadataFile \in Range(written) => Completed(3)
    /\ TopPerformersFile \in Range(written) => Completed(4)
    /\ QualityReportFile \in Range(written) => Completed(5)

\* C17, as claimed: the outputs of an execution are written in the order of
\* WriteOrder, all nine when run_pipeline returns True, and an execution
\* never changes pipeline_metadata.json in a load it does not complete nor
\* quality_report.json in a run_quality_checks it does not complete.
C17_NoOutputOfIncompleteStage ==
    /\ []WrittenInOrder
    /\ [][ /\ files'[MetadataFile] # files[MetadataFile] =>
                  pc = "load" /\ pc' = "views"
           /\ files'[QualityReportFile] # files[QualityReportFile] =>
                  pc = "quality" /\ pc' = "success" ]_vars

\* C17, amended: the outputs of an execution are written in the order of
\* WriteOrder, all nine when run_pipeline returns True; pipeline_metadata.json
\* changes only in load, after the six relation files of the execution were
\* written, and quality_report.json only in run_quality_checks, after
\* top_performers.csv of the execution was written; the stage that changes
\* the file either completes and has written it, or fails in the write and
\* leaves the file empty or partial.
C17_OutputsWrittenInOrder ==
    /\ []WrittenInOrder
    /\ [][ /\ files'[MetadataFile] # files[MetadataFile] =>
                  /\ pc = "load"
                  /\ SubSeq(written', 1, Len(ExportFiles)) = SubSeq(WriteOrder, 1, 6)
                  /\ \/ pc' = "views" /\ MetadataFile \in Range(written')
                     \/ pc' = "except" /\ files'[MetadataFile] = Some(Truncated)
           /\ files'[QualityReportFile] # files[QualityReportFile] =>
                  /\ pc = "quality"
                  /\ SubSeq(written', 1, 8) = SubSeq(WriteOrder, 1, 8)
                  /\ \/ pc' = "success" /\ QualityReportFile \in Range(written')
                     \/ pc' = "except" /\ files'[QualityReportFile] = Some(Truncated)
         ]_vars

\* run_pipeline has returned True after writing the nine files in order.
C17_Witness ==
    /\ pc = "returned"
    /\ retval = Some(TRUE)
    /\ written = WriteOrder
    /\ Len(started) = 5

(***************************************************************************)
(* One InfrastructureETL object whose run_pipeline() is called again after *)
(* it has returned: __init__ is not run again, self.conn stays the         *)
(* connection close() has closed.                                          *)
(***************************************************************************)
\* pipeline.run_pipeline() once more on the same object.
RunPipelineAgain ==
    /\ pc = "returned"
    /\ calls < MaxCalls
    /\ calls' = calls + 1
    /\ closeCalls' = 0
    /\ started' = <<>>
    /\ raised' = Null
    /\ retval' = Null
    /\ written' = <<>>
    /\ qcReturn' = Null
    /\ pc' = "extract"
    /\ UNCHANGED <<rawFile, auxFile, db, files, clock, conn, mainResult, runsLeft>>

\* Between two calls the required input file is removed.
RemoveRawFileAfterReturn ==
    /\ pc = "returned"
    /\ rawFile.kind # "absent"
    /\ rawFile' = AbsentFile
    /\ UNCHANGED <<auxFile, db, files, clock, pc, conn, closeCalls, started,
                   raised, retval, mainResult, written, qcReturn, runsLeft,
                   calls>>

InitReuse ==
    /\ rawFile \in RawFiles(LifecycleRows, MaxRows)
    /\ auxFile \in AuxFiles
    /\ runsLeft = 1
    /\ Fresh

NextReuse ==
    \/ \E ok \in BOOLEAN : Construct(ok)
    \/ Extract
    \/ Transform
    \/ \E failAt \in 0..(Len(ExportFiles) + 1), how \in {"refused", "truncated"},
          encoding \in Encodings :
           Load(failAt, how, encoding)
    \/ \E outcome \in WriteOutcomes, encoding \in Encodings :
           CreateAnalyticsViews(outcome, encoding)
    \/ \E outcome \in WriteOutcomes : RunQualityChecks(outcome)
    \/ \E printed \in BOOLEAN : ReturnTrue(printed)
    \/ Except
    \/ Finally
    \/ RunPipelineAgain
    \/ RemoveRawFileAfterReturn
    \/ DownloadSampleInfrastructureData(BetweenCalls)
    \/ \E name \in AuxNames : DownloadWorldBankIndicator(BetweenCalls, name)

SpecReuse == InitReuse /\ [][NextReuse]_vars

\* C18: once run_pipeline has returned the connection is closed and stays
\* closed; in every further call on the same object no stage that runs a
\* query completes (extract completes only when it has no file to read: none
\* is there until the call returns),
\* transform is the last stage that can start, the call returns False, and
\* from the call on the database and every file under data/final stay as
\* they were.
C18_AtMostOneSuccessfulRun ==
    /\ [](/\ (pc = "returned" \/ calls >= 2) => conn = "closed"
          /\ calls >= 2 =>
                 /\ Len(started) <= 2
                 /\ (Completed(1) /\ pc # "returned") =>
                        rawFile.kind = "absent" /\ auxFile = NoAuxFiles
                 /\ ~Completed(2)
                 /\ written = <<>>
                 /\ retval # Some(TRUE)
                 /\ pc = "returned" => retval = Some(FALSE))
    /\ [][ calls' >= 2 => /\ conn' = conn
                          /\ db' = db
                          /\ files' = files ]_vars

\* The first call returned True and left its files; the second call, made
\* with the input file still there, raised in extract and returned False.
C18_Witness ==
    /\ calls = 2
    /\ pc = "returned"
    /\ raised = Some("extract")
    /\ retval = Some(FALSE)
    /\ ~IsNull(files[QualityReportFile])
    /\ ~IsNull(db["clean_infrastructure"])
====
